---- MODULE Spec2Model ----
(***************************************************************************)
(* The MRM emergency stop operator                                         *)
(* (mrm_emergency_stop_operator_core.cpp) as a state machine.              *)
(*                                                                         *)
(* Numbers.  The node works on float32 message fields and double           *)
(* parameters.  Here every quantity is an integer number of quarter units  *)
(* (speed in 0.25 m/s, acceleration in 0.25 m/s^2, jerk in 0.25 m/s^3), a  *)
(* double is any integer and a float32 is a multiple of FloatStep, so      *)
(* that static_cast<float> is a rounding (to nearest, ties to even) that   *)
(* acts whenever a product with the elapsed time falls between two         *)
(* floats.  The clock counts half seconds (ClockHz clock units a second).  *)
(* The parameters are the declared defaults: -2.5 m/s^2 and -1.5 m/s^3.    *)
(***************************************************************************)
EXTENDS Integers, Sequences, FiniteSets, TLC

\* ---------------------------------------------------------------- bounds
\* The clock stops advancing at MaxTime (the node runs forever).
MaxTime == 4

\* ------------------------------------------------------------- constants
\* params_.target_acceleration, default -2.5 m/s^2, in quarter units.
target_acceleration == -10
\* params_.target_jerk, default -1.5 m/s^3, in quarter units.
target_jerk == -6
\* Clock units in a second: Duration::seconds() divides by it.
ClockHz == 2
\* The distance between two neighbouring float32 values, in quarter units.
FloatStep == 2

AVAILABLE == "AVAILABLE"
OPERATING == "OPERATING"

\* ------------------------------------------------------ upstream inputs
\* float32 values an upstream command may carry (multiples of FloatStep).
SpeedValues == {-2, 6}
AccelerationValues == {-12, -8, 0, 2}
AngleValues == {0, 2}
RateValues == {4}
\* How long before its reception an upstream command was stamped; -1 is a
\* sender whose clock is ahead of the node's.
StampAges == {-1, 0, 1}

VARIABLES
  now,                                    \* this->now(), in clock units
  status_,                                \* status_ (MrmBehaviorStatus)
  is_prev_control_cmd_subscribed_,
  prev_control_cmd_,
  lateral_cmd_at_start_of_emergency_stop_,
  response,                               \* the response of the last request
  published,                              \* what the last handler published
  ev,                                     \* the handler that ran last
  request,                                \* the flag of the last request
  accepted,                               \* last upstream command stored
  msg_stored,                             \* the stored command is the message
                                          \* the inbound handler just got
  ramp_out,                               \* has the ramp output in this period
  last_tick,                              \* when the last tick ran, -1: never
  pc                                      \* where each callback stands when
                                          \* callbacks run on threads of their own

vars == <<now, status_, is_prev_control_cmd_subscribed_, prev_control_cmd_,
          lateral_cmd_at_start_of_emergency_stop_, response, published, ev,
          request, accepted, msg_stored, ramp_out, last_tick, pc>>

\* ------------------------------------------------------------- messages
\* AckermannLateralCommand()
AckermannLateralCommand ==
  [stamp |-> 0, steering_tire_angle |-> 0, steering_tire_rotation_rate |-> 0]

\* LongitudinalCommand()
LongitudinalCommand ==
  [stamp |-> 0, speed |-> 0, acceleration |-> 0, jerk |-> 0]

\* AckermannControlCommand(): every field zero.
AckermannControlCommand ==
  [stamp |-> 0, lateral |-> AckermannLateralCommand,
   longitudinal |-> LongitudinalCommand]

\* The upstream commands that can arrive at clock value t.
UpstreamCommands(t) ==
  { [stamp |-> t - age,
     lateral |-> [stamp |-> t - age, steering_tire_angle |-> an,
                  steering_tire_rotation_rate |-> rt],
     longitudinal |-> [stamp |-> t - age, speed |-> sp, acceleration |-> ac,
                       jerk |-> 0]] :
      <<age, sp, ac, an, rt>> \in
        {a \in StampAges : a <= t} \X SpeedValues \X AccelerationValues
          \X AngleValues \X RateValues }

\* ------------------------------------------------------------ arithmetic
\* std::max
Max(a, b) == IF a >= b THEN a ELSE b

\* static_cast<float>(x): the float nearest to x, the even one on a tie.
static_cast_float(x) ==
  IF x % FloatStep = 0 THEN x
  ELSE IF (x + 1) % (2 * FloatStep) = 0 THEN x + 1 ELSE x - 1

\* x * dt, where dt = (now - stamp).seconds() and d = now - stamp.
TimesSeconds(x, d) == (x * d) \div ClockHz

\* ------------------------------------------------------------ the ramp
\* Integrate with the parts a slip could change: whether the speed is
\* floored at 0, whether the acceleration is floored at the target, the
\* sign of the jerk, and whether the jerk settles.
IntegrateWith(prev_control_cmd, floor_speed, floor_acceleration, j, settle) ==
  LET d == now - prev_control_cmd.stamp
      raw_speed == prev_control_cmd.longitudinal.speed
                     + TimesSeconds(prev_control_cmd.longitudinal.acceleration, d)
      raw_acceleration == prev_control_cmd.longitudinal.acceleration
                            + TimesSeconds(j, d)
      speed == static_cast_float(
        IF floor_speed THEN Max(raw_speed, 0) ELSE raw_speed)
      acceleration == static_cast_float(
        IF floor_acceleration THEN Max(raw_acceleration, target_acceleration)
        ELSE raw_acceleration)
      jerk == IF settle
                 /\ prev_control_cmd.longitudinal.acceleration = target_acceleration
              THEN 0 ELSE static_cast_float(target_jerk)
  IN [prev_control_cmd EXCEPT
        !.stamp = now,
        !.longitudinal.stamp = now,
        !.longitudinal.speed = speed,
        !.longitudinal.acceleration = acceleration,
        !.longitudinal.jerk = jerk]

\* The speed is not floored at 0.
Integrate_NoSpeedFloor(prev_control_cmd) ==
  IntegrateWith(prev_control_cmd, FALSE, TRUE, target_jerk, TRUE)

\* The acceleration is not floored at the target.
Integrate_NoAccelerationFloor(prev_control_cmd) ==
  IntegrateWith(prev_control_cmd, TRUE, FALSE, target_jerk, TRUE)

\* The jerk is applied with the wrong sign.
Integrate_PositiveJerk(prev_control_cmd) ==
  IntegrateWith(prev_control_cmd, TRUE, TRUE, 0 - target_jerk, TRUE)

\* The jerk never settles to 0.
Integrate_JerkNeverSettles(prev_control_cmd) ==
  IntegrateWith(prev_control_cmd, TRUE, TRUE, target_jerk, FALSE)

\* The jerk settles on the new acceleration instead of the previous one.
Integrate_JerkFromNewAcceleration(prev_control_cmd) ==
  LET out == IntegrateWith(prev_control_cmd, TRUE, TRUE, target_jerk, TRUE)
  IN [out EXCEPT !.longitudinal.jerk =
        IF out.longitudinal.acceleration = target_acceleration
        THEN 0 ELSE static_cast_float(target_jerk)]

\* calcTargetAcceleration(prev_control_cmd), lines 122-138: the integration
\* of a command that was observed or output before.
Integrate(prev_control_cmd) ==
  LET d == now - prev_control_cmd.stamp
      speed == static_cast_float(
        Max(prev_control_cmd.longitudinal.speed
              + TimesSeconds(prev_control_cmd.longitudinal.acceleration, d), 0))
      acceleration == static_cast_float(
        Max(prev_control_cmd.longitudinal.acceleration
              + TimesSeconds(target_jerk, d), target_acceleration))
      jerk == IF prev_control_cmd.longitudinal.acceleration = target_acceleration
              THEN 0 ELSE static_cast_float(target_jerk)
  IN [prev_control_cmd EXCEPT
        !.stamp = now,
        !.longitudinal.stamp = now,
        !.longitudinal.speed = speed,
        !.longitudinal.acceleration = acceleration,
        !.longitudinal.jerk = jerk]

\* calcTargetAcceleration(prev_control_cmd), lines 110-120: no upstream
\* command was ever stored.
Bootstrap ==
  [stamp |-> now,
   lateral |-> [stamp |-> now, steering_tire_angle |-> 0,
                steering_tire_rotation_rate |-> 0],
   longitudinal |-> [stamp |-> now, speed |-> 0,
                     acceleration |-> static_cast_float(target_acceleration),
                     jerk |-> 0]]

\* The never-observed case is not told apart.
calcTargetAcceleration_NoBootstrap(prev_control_cmd) ==
  Integrate(prev_control_cmd)

calcTargetAcceleration(prev_control_cmd) ==
  IF ~is_prev_control_cmd_subscribed_
  THEN Bootstrap
  ELSE Integrate(prev_control_cmd)

\* ------------------------------------------------------------- handlers
\* No callback is running.
Idle ==
  [cmd |-> [at |-> "idle", msg |-> AckermannControlCommand],
   req |-> [at |-> "idle", operate |-> FALSE, subscribed |-> FALSE],
   timer |-> [at |-> "idle", control_cmd |-> AckermannControlCommand]]

Init ==
  /\ now = 0
  /\ status_ = [stamp |-> 0, state |-> AVAILABLE]
  /\ is_prev_control_cmd_subscribed_ = FALSE
  /\ prev_control_cmd_ = AckermannControlCommand
  /\ lateral_cmd_at_start_of_emergency_stop_ = AckermannLateralCommand
  /\ response = [success |-> FALSE]
  /\ published = <<>>
  /\ ev = "init"
  /\ request = FALSE
  /\ accepted = AckermannControlCommand
  /\ msg_stored = FALSE
  /\ ramp_out = FALSE
  /\ last_tick = 0 - 1
  /\ pc = Idle

\* The clock moves on between two callbacks.
Advance ==
  /\ now < MaxTime
  /\ now' = now + 1
  /\ ev' = "clock"
  /\ published' = <<>>
  /\ msg_stored' = FALSE
  /\ UNCHANGED <<status_, is_prev_control_cmd_subscribed_, prev_control_cmd_,
                 lateral_cmd_at_start_of_emergency_stop_, response, request,
                 accepted, ramp_out, last_tick, pc>>

\* The handler with its parts a slip could change: whether it looks at the
\* state, and whether it marks the command as observed.
onControlCommandWith(msg, guarded, mark) ==
  /\ IF ~guarded \/ status_.state # OPERATING
     THEN /\ prev_control_cmd_' = msg
          /\ is_prev_control_cmd_subscribed_' =
               (mark \/ is_prev_control_cmd_subscribed_)
          /\ accepted' = msg
     ELSE UNCHANGED <<prev_control_cmd_, is_prev_control_cmd_subscribed_,
                      accepted>>
  /\ ev' = "onControlCommand"
  /\ msg_stored' = (prev_control_cmd_' = msg)
  /\ published' = <<>>
  /\ UNCHANGED <<now, status_, lateral_cmd_at_start_of_emergency_stop_,
                 response, request, ramp_out, last_tick, pc>>

\* An upstream command is stored in every state.
onControlCommand_Unguarded(msg) == onControlCommandWith(msg, FALSE, TRUE)

\* The command is stored but not marked as observed.
onControlCommand_NoFlag(msg) == onControlCommandWith(msg, TRUE, FALSE)

onControlCommand(msg) ==
  /\ IF status_.state # OPERATING
     THEN /\ prev_control_cmd_' = msg
          /\ is_prev_control_cmd_subscribed_' = TRUE
          /\ accepted' = msg
     ELSE UNCHANGED <<prev_control_cmd_, is_prev_control_cmd_subscribed_,
                      accepted>>
  /\ ev' = "onControlCommand"
  /\ msg_stored' = (prev_control_cmd_' = msg)
  /\ published' = <<>>
  /\ UNCHANGED <<now, status_, lateral_cmd_at_start_of_emergency_stop_,
                 response, request, ramp_out, last_tick, pc>>

\* A request for the state the operator is already in is refused.
operateEmergencyStop_RejectRedundant(operate) ==
  /\ IF status_.state = (IF operate THEN OPERATING ELSE AVAILABLE)
     THEN /\ response' = [success |-> FALSE]
          /\ UNCHANGED <<status_, lateral_cmd_at_start_of_emergency_stop_,
                         ramp_out>>
     ELSE /\ lateral_cmd_at_start_of_emergency_stop_' =
               IF ~operate THEN lateral_cmd_at_start_of_emergency_stop_
               ELSE IF is_prev_control_cmd_subscribed_
                    THEN prev_control_cmd_.lateral
                    ELSE [lateral_cmd_at_start_of_emergency_stop_ EXCEPT
                            !.steering_tire_angle = 0,
                            !.steering_tire_rotation_rate = 0]
          /\ status_' = [status_ EXCEPT
               !.state = IF operate THEN OPERATING ELSE AVAILABLE]
          /\ response' = [success |-> TRUE]
          /\ ramp_out' = (operate /\ ramp_out)
  /\ ev' = "operateEmergencyStop"
  /\ request' = operate
  /\ msg_stored' = FALSE
  /\ published' = <<>>
  /\ UNCHANGED <<now, is_prev_control_cmd_subscribed_, prev_control_cmd_,
                 accepted, last_tick, pc>>

operateEmergencyStop(operate) ==
  /\ IF operate = TRUE
     THEN /\ IF is_prev_control_cmd_subscribed_
             THEN lateral_cmd_at_start_of_emergency_stop_' =
                    prev_control_cmd_.lateral
             ELSE lateral_cmd_at_start_of_emergency_stop_' =
                    [lateral_cmd_at_start_of_emergency_stop_ EXCEPT
                       !.steering_tire_angle = 0,
                       !.steering_tire_rotation_rate = 0]
          /\ status_' = [status_ EXCEPT !.state = OPERATING]
          /\ response' = [success |-> TRUE]
          /\ ramp_out' = ramp_out
     ELSE /\ status_' = [status_ EXCEPT !.state = AVAILABLE]
          /\ response' = [success |-> TRUE]
          /\ ramp_out' = FALSE
          /\ UNCHANGED lateral_cmd_at_start_of_emergency_stop_
  /\ ev' = "operateEmergencyStop"
  /\ request' = operate
  /\ msg_stored' = FALSE
  /\ published' = <<>>
  /\ UNCHANGED <<now, is_prev_control_cmd_subscribed_, prev_control_cmd_,
                 accepted, last_tick, pc>>

\* A fresh status message is published instead of a copy of status_.
publishStatus_Fresh ==
  [topic |-> "status", msg |-> [stamp |-> now, state |-> AVAILABLE]]

\* publishStatus(): the status with the current time as its stamp.
publishStatus == [topic |-> "status", msg |-> [status_ EXCEPT !.stamp = now]]

\* publishControlCommand(command)
publishControlCommand(command) == [topic |-> "control_cmd", msg |-> command]

\* The operator leaves OPERATING by itself once the ramp outputs speed 0.
onTimer_ExitWhenStopped ==
  /\ IF status_.state = OPERATING
     THEN LET control_cmd == calcTargetAcceleration(prev_control_cmd_)
          IN /\ published' = <<publishControlCommand(control_cmd), publishStatus>>
             /\ prev_control_cmd_' = control_cmd
             /\ ramp_out' = (control_cmd.longitudinal.speed # 0)
             /\ status_' = IF control_cmd.longitudinal.speed = 0
                           THEN [status_ EXCEPT !.state = AVAILABLE]
                           ELSE status_
     ELSE /\ published' = <<publishControlCommand(prev_control_cmd_),
                            publishStatus>>
          /\ UNCHANGED <<prev_control_cmd_, ramp_out, status_>>
  /\ ev' = "onTimer"
  /\ msg_stored' = FALSE
  /\ last_tick' = now
  /\ UNCHANGED <<now, is_prev_control_cmd_subscribed_,
                 lateral_cmd_at_start_of_emergency_stop_, response, request,
                 accepted, pc>>

onTimer ==
  /\ IF status_.state = OPERATING
     THEN LET control_cmd == calcTargetAcceleration(prev_control_cmd_)
          IN /\ published' = <<publishControlCommand(control_cmd), publishStatus>>
             /\ prev_control_cmd_' = control_cmd
             /\ ramp_out' = TRUE
     ELSE /\ published' = <<publishControlCommand(prev_control_cmd_),
                            publishStatus>>
          /\ UNCHANGED <<prev_control_cmd_, ramp_out>>
  /\ ev' = "onTimer"
  /\ msg_stored' = FALSE
  /\ last_tick' = now
  /\ UNCHANGED <<now, status_, is_prev_control_cmd_subscribed_,
                 lateral_cmd_at_start_of_emergency_stop_, response, request,
                 accepted, pc>>

Next ==
  \/ Advance
  \/ \E msg \in UpstreamCommands(now) : onControlCommand(msg)
  \/ \E operate \in BOOLEAN : operateEmergencyStop(operate)
  \/ onTimer

Spec == Init /\ [][Next]_vars

\* --------------------------------------------------------------- claims
\* The control command the last handler published (a tick publishes one).
PublishedCommand == published[1].msg

\* The last handler was a tick, handled in state st.
TickIn(st) == ev = "onTimer" /\ status_.state = st

\* C1: the operator state is AVAILABLE initially, and it changes only in a
\* step of the takeover request handler: no tick, no inbound command and
\* no passing of time changes it.
C1_StateChangesOnlyByRequest ==
  /\ status_.state = AVAILABLE
  /\ [][status_.state' # status_.state => ev' = "operateEmergencyStop"]_vars

\* C1's case: a tick was handled while OPERATING with the ramp at speed 0,
\* and the state is still OPERATING.
C1_Witness ==
  /\ TickIn(OPERATING)
  /\ is_prev_control_cmd_subscribed_
  /\ PublishedCommand.longitudinal.speed = 0

\* C2: a command published by a tick while OPERATING carries the steering
\* angle and rate of the lateral snapshot taken at activation, and that
\* snapshot is the lateral part of the last upstream command stored, or
\* (0,0) when none was ever stored.
C2_LateralIsSnapshot ==
  TickIn(OPERATING) =>
    /\ PublishedCommand.lateral.steering_tire_angle =
         lateral_cmd_at_start_of_emergency_stop_.steering_tire_angle
    /\ PublishedCommand.lateral.steering_tire_rotation_rate =
         lateral_cmd_at_start_of_emergency_stop_.steering_tire_rotation_rate
    /\ lateral_cmd_at_start_of_emergency_stop_.steering_tire_angle =
         (IF is_prev_control_cmd_subscribed_
          THEN accepted.lateral.steering_tire_angle ELSE 0)
    /\ lateral_cmd_at_start_of_emergency_stop_.steering_tire_rotation_rate =
         (IF is_prev_control_cmd_subscribed_
          THEN accepted.lateral.steering_tire_rotation_rate ELSE 0)

\* C2's case: a tick while OPERATING publishes a steering angle that is not
\* the default, after the ramp has already run in this period.
C2_Witness ==
  /\ TickIn(OPERATING)
  /\ PublishedCommand.lateral.steering_tire_angle # 0
  /\ PublishedCommand.longitudinal.acceleration = target_acceleration
  /\ PublishedCommand.longitudinal.jerk = 0

\* C3: a tick handled while AVAILABLE publishes the last upstream command
\* the inbound-command handler stored, unchanged (also on the first tick
\* after a deactivation that ends an OPERATING period).
C3_AvailablePublishesUpstream ==
  (TickIn(AVAILABLE) /\ is_prev_control_cmd_subscribed_) =>
    PublishedCommand = accepted

\* C4: a request with flag true leaves the state OPERATING, one with flag
\* false leaves it AVAILABLE, whatever the state was, and the response
\* reports success.
C4_RequestAlwaysSucceeds ==
  ev = "operateEmergencyStop" =>
    /\ response.success = TRUE
    /\ status_.state = (IF request THEN OPERATING ELSE AVAILABLE)

\* C4's case: an activation request was handled while already OPERATING
\* (the ramp had output in this period).
C4_Witness ==
  /\ ev = "operateEmergencyStop"
  /\ request
  /\ ramp_out

\* C5: an inbound command handled while OPERATING leaves the stored
\* command, the observed flag, the lateral snapshot and the state as they
\* were; one handled while AVAILABLE makes the message the stored command
\* and sets the observed flag.
C5_InboundCommandEffect ==
  [][ev' = "onControlCommand" =>
       IF status_.state = OPERATING
       THEN UNCHANGED <<prev_control_cmd_, is_prev_control_cmd_subscribed_,
                        lateral_cmd_at_start_of_emergency_stop_, status_>>
       ELSE /\ msg_stored'
            /\ is_prev_control_cmd_subscribed_' = TRUE
            /\ UNCHANGED <<lateral_cmd_at_start_of_emergency_stop_, status_>>]_vars

\* C5's case: an inbound command was handled while OPERATING, and the
\* stored command is still the ramp's output, not an upstream command.
C5_Witness ==
  /\ ev = "onControlCommand"
  /\ status_.state = OPERATING
  /\ ramp_out
  /\ prev_control_cmd_ # accepted

\* C6: a command the ramp produces has speed >= 0 and acceleration >=
\* target_acceleration, whatever the stored command and the elapsed time.
C6_RampWithinFloors ==
  TickIn(OPERATING) =>
    /\ PublishedCommand.longitudinal.speed >= 0
    /\ PublishedCommand.longitudinal.acceleration >= target_acceleration

\* C6's case: the ramp ran on an upstream command with a negative speed
\* and an acceleration below the target.
C6_Witness ==
  /\ TickIn(OPERATING)
  /\ is_prev_control_cmd_subscribed_
  /\ accepted.longitudinal.speed < 0
  /\ accepted.longitudinal.acceleration < target_acceleration
  /\ PublishedCommand.longitudinal.speed = 0
  /\ PublishedCommand.longitudinal.acceleration = target_acceleration

\* A step in which the ramp integrates the stored command.
RampStep ==
  /\ status_.state = OPERATING
  /\ is_prev_control_cmd_subscribed_
  /\ ev' = "onTimer"

\* C7, as claimed: at every ramp step the output acceleration is at most
\* the input acceleration, and the output speed is at most the input speed
\* when the input acceleration is negative, for every upstream command.
C7_RampNonIncreasing ==
  [][RampStep =>
       /\ prev_control_cmd_'.longitudinal.acceleration
            <= prev_control_cmd_.longitudinal.acceleration
       /\ prev_control_cmd_.longitudinal.acceleration < 0 =>
            prev_control_cmd_'.longitudinal.speed
              <= prev_control_cmd_.longitudinal.speed]_vars

\* C7, amended: at every ramp step whose elapsed time is not negative the
\* output acceleration is at most the larger of the input acceleration and
\* target_acceleration, and when the input acceleration is negative the
\* output speed is at most the larger of the input speed and 0.
C7_RampNonIncreasingAboveFloors ==
  [][(RampStep /\ now >= prev_control_cmd_.stamp) =>
       /\ prev_control_cmd_'.longitudinal.acceleration
            <= Max(prev_control_cmd_.longitudinal.acceleration,
                   target_acceleration)
       /\ prev_control_cmd_.longitudinal.acceleration < 0 =>
            prev_control_cmd_'.longitudinal.speed
              <= Max(prev_control_cmd_.longitudinal.speed, 0)]_vars

\* C7's case: the ramp ran, after time had passed, on an upstream command
\* above both floors and brought both its speed and its acceleration down.
C7_Witness ==
  /\ TickIn(OPERATING)
  /\ is_prev_control_cmd_subscribed_
  /\ accepted.longitudinal.speed > 0
  /\ accepted.longitudinal.acceleration > target_acceleration
  /\ PublishedCommand.longitudinal.speed < accepted.longitudinal.speed
  /\ PublishedCommand.longitudinal.acceleration
       < accepted.longitudinal.acceleration

\* C8: while no upstream command was ever stored, every tick while
\* OPERATING publishes speed 0, acceleration target_acceleration, jerk 0
\* and lateral (0,0).
C8_BootstrapCommand ==
  (TickIn(OPERATING) /\ ~is_prev_control_cmd_subscribed_) =>
    /\ PublishedCommand.longitudinal.speed = 0
    /\ PublishedCommand.longitudinal.acceleration = target_acceleration
    /\ PublishedCommand.longitudinal.jerk = 0
    /\ PublishedCommand.lateral.steering_tire_angle = 0
    /\ PublishedCommand.lateral.steering_tire_rotation_rate = 0

\* C8's case: a tick while OPERATING with nothing ever stored, at a time
\* when an integration of the default command would have moved on.
C8_Witness ==
  /\ TickIn(OPERATING)
  /\ ~is_prev_control_cmd_subscribed_
  /\ now > 0

\* C9: within an OPERATING period, once the ramp has published a command
\* with acceleration target_acceleration, the next tick of the period (and
\* so every later one) publishes acceleration target_acceleration and
\* jerk 0.
C9_JerkSettles ==
  [][(/\ status_.state = OPERATING
      /\ ramp_out
      /\ prev_control_cmd_.longitudinal.acceleration = target_acceleration
      /\ ev' = "onTimer") =>
       /\ Len(published') = 2
       /\ published'[1].msg.longitudinal.acceleration = target_acceleration
       /\ published'[1].msg.longitudinal.jerk = 0]_vars

\* C9's case: the ramp started above the target, reached it, and a later
\* tick published jerk 0.
C9_Witness ==
  /\ TickIn(OPERATING)
  /\ is_prev_control_cmd_subscribed_
  /\ accepted.longitudinal.acceleration > target_acceleration
  /\ PublishedCommand.longitudinal.acceleration = target_acceleration
  /\ PublishedCommand.longitudinal.jerk = 0

\* C10: the state leaves OPERATING only by a deactivation request; and
\* once the ramp has output speed 0 with acceleration target_acceleration,
\* every further tick of the period outputs speed 0, acceleration
\* target_acceleration and jerk 0.
C10_OperatingUntilDeactivated ==
  [][/\ (status_.state = OPERATING /\ status_.state' # OPERATING) =>
          (ev' = "operateEmergencyStop" /\ request' = FALSE)
     /\ (/\ status_.state = OPERATING
         /\ ramp_out
         /\ prev_control_cmd_.longitudinal.speed = 0
         /\ prev_control_cmd_.longitudinal.acceleration = target_acceleration
         /\ ev' = "onTimer") =>
          /\ status_.state' = OPERATING
          /\ Len(published') = 2
          /\ published'[1].msg.longitudinal.speed = 0
          /\ published'[1].msg.longitudinal.acceleration = target_acceleration
          /\ published'[1].msg.longitudinal.jerk = 0]_vars

\* C10's case: the ramp started from a positive speed above the target
\* acceleration, reached speed 0 at the target and, after more time, a
\* further tick still holds speed 0 with jerk 0 in state OPERATING.
C10_Witness ==
  /\ TickIn(OPERATING)
  /\ is_prev_control_cmd_subscribed_
  /\ accepted.longitudinal.speed > 0
  /\ accepted.longitudinal.acceleration > target_acceleration
  /\ PublishedCommand.longitudinal.speed = 0
  /\ PublishedCommand.longitudinal.acceleration = target_acceleration
  /\ PublishedCommand.longitudinal.jerk = 0
  /\ now > accepted.stamp + 2

\* C12: every tick publishes exactly one control command and then exactly
\* one status report, in both states, and the status carries the operator
\* state of that tick.
C12_TickPublishesCommandThenStatus ==
  ev = "onTimer" =>
    /\ Len(published) = 2
    /\ published[1].topic = "control_cmd"
    /\ published[2].topic = "status"
    /\ published[2].msg.state = status_.state

\* C12's case: a tick while OPERATING published the command of the ramp
\* and then a status that says OPERATING.
C12_Witness ==
  /\ TickIn(OPERATING)
  /\ ramp_out
  /\ Len(published) = 2
  /\ published[1].msg = prev_control_cmd_
  /\ published[2].msg.state = OPERATING

\* C13, as claimed: at a ramp step, with d the elapsed time, the output
\* speed is max(speed + acceleration * dt, 0), the output acceleration
\* is max(acceleration + target_jerk * dt, target_acceleration), and the
\* jerk is 0 if the previous acceleration equals the target, otherwise
\* target_jerk.
C13_RampFormula ==
  [][RampStep =>
       LET prev == prev_control_cmd_.longitudinal
           d == now - prev_control_cmd_.stamp
           out == prev_control_cmd_'.longitudinal
       IN /\ out.speed = Max(prev.speed + (prev.acceleration * d) \div ClockHz, 0)
          /\ out.acceleration =
               Max(prev.acceleration + (target_jerk * d) \div ClockHz,
                   target_acceleration)
          /\ out.jerk = (IF prev.acceleration = target_acceleration
                         THEN 0 ELSE target_jerk)]_vars

\* The float nearest to x (the even one of two equally near), stated
\* without the model's cast: y is a float and no float is nearer to x.
NearestFloat(x, y) ==
  /\ y % FloatStep = 0
  /\ (y - x) \in {0 - 1, 0, 1}
  /\ (y # x) => y % (2 * FloatStep) = 0

\* C13, amended: the same, with the speed and the acceleration rounded to
\* single precision.
C13_RampFormulaRounded ==
  [][RampStep =>
       LET prev == prev_control_cmd_.longitudinal
           d == now - prev_control_cmd_.stamp
           out == prev_control_cmd_'.longitudinal
       IN /\ NearestFloat(
               Max(prev.speed + (prev.acceleration * d) \div ClockHz, 0),
               out.speed)
          /\ NearestFloat(
               Max(prev.acceleration + (target_jerk * d) \div ClockHz,
                   target_acceleration),
               out.acceleration)
          /\ out.jerk = (IF prev.acceleration = target_acceleration
                         THEN 0 ELSE target_jerk)]_vars

\* C13's case: the tick on which the acceleration is first clamped to the
\* target, with the jerk still target_jerk, from an upstream command above
\* the target.
C13_Witness ==
  /\ TickIn(OPERATING)
  /\ is_prev_control_cmd_subscribed_
  /\ accepted.longitudinal.acceleration > target_acceleration
  /\ PublishedCommand.longitudinal.acceleration = target_acceleration
  /\ PublishedCommand.longitudinal.jerk = target_jerk
  /\ PublishedCommand.longitudinal.speed > 0

\* C14: a command the ramp outputs has its own stamp, the stamp of its
\* longitudinal part and the stamp of its lateral part equal to the time
\* of the tick.
C14_AllStampsNow ==
  TickIn(OPERATING) =>
    /\ PublishedCommand.stamp = now
    /\ PublishedCommand.longitudinal.stamp = now
    /\ PublishedCommand.lateral.stamp = now

\* C15: the stored upstream command is written only by the inbound-command
\* handler: no tick, in either state, modifies it.
C15_TickKeepsStoredCommand ==
  [][(ev' = "onTimer" /\ is_prev_control_cmd_subscribed_) =>
       prev_control_cmd_' = prev_control_cmd_]_vars

\* C16: an activation request handled while already OPERATING leaves the
\* state, the angle and rate of the lateral snapshot, the stored command
\* and the observed flag as they were.
C16_ActivationIdempotent ==
  [][(/\ status_.state = OPERATING
      /\ ev' = "operateEmergencyStop"
      /\ request' = TRUE) =>
       /\ status_' = status_
       /\ lateral_cmd_at_start_of_emergency_stop_'.steering_tire_angle =
            lateral_cmd_at_start_of_emergency_stop_.steering_tire_angle
       /\ lateral_cmd_at_start_of_emergency_stop_'.steering_tire_rotation_rate =
            lateral_cmd_at_start_of_emergency_stop_.steering_tire_rotation_rate
       /\ prev_control_cmd_' = prev_control_cmd_
       /\ is_prev_control_cmd_subscribed_' = is_prev_control_cmd_subscribed_]_vars

\* C16's case: a second activation was handled after the ramp had output
\* in this period, with a snapshot that is not the default.
C16_Witness ==
  /\ ev = "operateEmergencyStop"
  /\ request
  /\ ramp_out
  /\ is_prev_control_cmd_subscribed_
  /\ lateral_cmd_at_start_of_emergency_stop_.steering_tire_angle # 0
  /\ prev_control_cmd_.longitudinal.jerk # 0

\* C17: at every ramp step the elapsed time dt = now - (stamp of the stored
\* command) is >= 0 and is the time since the previous tick's output, also
\* on the first tick after an activation.
C17_ElapsedTimeIsTickInterval ==
  [][RampStep =>
       /\ now - prev_control_cmd_.stamp >= 0
       /\ last_tick >= 0 =>
            now - prev_control_cmd_.stamp = now - last_tick]_vars

\* ------------------------------------------------- the ramp runs to a stop
\* The clock of LiveSpec stops at LiveMaxTime, late enough for every ramp
\* that starts by LiveActivateBy to have come to a stop before.
LiveMaxTime == 10
\* Upstream commands and activations arrive up to this time.
LiveActivateBy == 1

\* The clock moves on once the timer has fired at the current time: the
\* timer's period (1 / update_rate, 1/30 s) is shorter than a clock unit.
LiveAdvance ==
  /\ now < LiveMaxTime
  /\ last_tick = now
  /\ now' = now + 1
  /\ ev' = "clock"
  /\ published' = <<>>
  /\ msg_stored' = FALSE
  /\ UNCHANGED <<status_, is_prev_control_cmd_subscribed_, prev_control_cmd_,
                 lateral_cmd_at_start_of_emergency_stop_, response, request,
                 accepted, ramp_out, last_tick, pc>>

LiveNext ==
  \/ LiveAdvance
  \/ /\ now <= LiveActivateBy
     /\ \E msg \in UpstreamCommands(now) : onControlCommand(msg)
  \/ /\ now <= LiveActivateBy
     /\ operateEmergencyStop(TRUE)
  \/ operateEmergencyStop(FALSE)
  \/ onTimer

\* The timer keeps firing and time keeps passing.
LiveSpec ==
  Init /\ [][LiveNext]_vars /\ WF_vars(onTimer) /\ WF_vars(LiveAdvance)

\* The last tick published a full stop: speed 0 at the target acceleration.
Stopped ==
  /\ TickIn(OPERATING)
  /\ PublishedCommand.longitudinal.speed = 0
  /\ PublishedCommand.longitudinal.acceleration = target_acceleration

RaceMaxTime == 1

\* The upstream commands of RaceSpec: they differ in the steering angle.
RaceCommands(t) ==
  {msg \in UpstreamCommands(t) :
     /\ msg.stamp = t
     /\ msg.longitudinal.speed = 6
     /\ msg.longitudinal.acceleration = 0}

\* What a step of RaceSpec leaves alone besides the members it names.
RaceFrame == <<now, msg_stored, ramp_out, last_tick>>

RaceAdvance ==
  /\ now < RaceMaxTime
  /\ now' = now + 1
  /\ ev' = "clock"
  /\ UNCHANGED <<status_, is_prev_control_cmd_subscribed_, prev_control_cmd_,
                 lateral_cmd_at_start_of_emergency_stop_, response, published,
                 request, accepted, msg_stored, ramp_out, last_tick, pc>>

\* onControlCommand, line 57: the state is read.
CmdCheck(msg) ==
  /\ pc.cmd.at = "idle"
  /\ pc' = IF status_.state # OPERATING
           THEN [pc EXCEPT !.cmd = [at |-> "store", msg |-> msg]]
           ELSE pc
  /\ ev' = "onControlCommand:check"
  /\ UNCHANGED <<status_, is_prev_control_cmd_subscribed_, prev_control_cmd_,
                 lateral_cmd_at_start_of_emergency_stop_, response, published,
                 request, accepted, RaceFrame>>

\* onControlCommand, line 58: the message is stored.
CmdStore ==
  /\ pc.cmd.at = "store"
  /\ prev_control_cmd_' = pc.cmd.msg
  /\ accepted' = pc.cmd.msg
  /\ pc' = [pc EXCEPT !.cmd.at = "mark"]
  /\ ev' = "onControlCommand:store"
  /\ UNCHANGED <<status_, is_prev_control_cmd_subscribed_,
                 lateral_cmd_at_start_of_emergency_stop_, response, published,
                 request, RaceFrame>>

\* onControlCommand, line 59: the command is marked as observed.
CmdMark ==
  /\ pc.cmd.at = "mark"
  /\ is_prev_control_cmd_subscribed_' = TRUE
  /\ pc' = [pc EXCEPT !.cmd = Idle.cmd]
  /\ ev' = "onControlCommand:mark"
  /\ UNCHANGED <<status_, prev_control_cmd_,
                 lateral_cmd_at_start_of_emergency_stop_, response, published,
                 request, accepted, RaceFrame>>

\* operateEmergencyStop, lines 66-67: the request and the observed flag are
\* read.
ReqRead(operate) ==
  /\ pc.req.at = "idle"
  /\ pc' = [pc EXCEPT !.req =
              IF operate
              THEN [at |-> "snapshot", operate |-> TRUE,
                    subscribed |-> is_prev_control_cmd_subscribed_]
              ELSE [at |-> "state", operate |-> FALSE, subscribed |-> FALSE]]
  /\ ev' = "operateEmergencyStop:read"
  /\ UNCHANGED <<status_, is_prev_control_cmd_subscribed_, prev_control_cmd_,
                 lateral_cmd_at_start_of_emergency_stop_, response, published,
                 request, accepted, RaceFrame>>

\* operateEmergencyStop, lines 68-71: the lateral snapshot is written.
ReqSnapshot ==
  /\ pc.req.at = "snapshot"
  /\ lateral_cmd_at_start_of_emergency_stop_' =
       IF pc.req.subscribed
       THEN prev_control_cmd_.lateral
       ELSE [lateral_cmd_at_start_of_emergency_stop_ EXCEPT
               !.steering_tire_angle = 0,
               !.steering_tire_rotation_rate = 0]
  /\ pc' = [pc EXCEPT !.req.at = "state"]
  /\ ev' = "operateEmergencyStop:snapshot"
  /\ UNCHANGED <<status_, is_prev_control_cmd_subscribed_, prev_control_cmd_,
                 response, published, request, accepted, RaceFrame>>

\* operateEmergencyStop, lines 73-74 and 76-77: the state is written and
\* the response filled in.
ReqState ==
  /\ pc.req.at = "state"
  /\ status_' = [status_ EXCEPT
       !.state = IF pc.req.operate THEN OPERATING ELSE AVAILABLE]
  /\ response' = [success |-> TRUE]
  /\ request' = pc.req.operate
  /\ pc' = [pc EXCEPT !.req = Idle.req]
  /\ ev' = "operateEmergencyStop:state"
  /\ UNCHANGED <<is_prev_control_cmd_subscribed_, prev_control_cmd_,
                 lateral_cmd_at_start_of_emergency_stop_, published, accepted,
                 RaceFrame>>

\* onTimer, line 95: the state is read.
TimerRead ==
  /\ pc.timer.at = "idle"
  /\ pc' = [pc EXCEPT !.timer.at =
              IF status_.state = OPERATING THEN "calc" ELSE "republish"]
  /\ ev' = "onTimer:read"
  /\ UNCHANGED <<status_, is_prev_control_cmd_subscribed_, prev_control_cmd_,
                 lateral_cmd_at_start_of_emergency_stop_, response, published,
                 request, accepted, RaceFrame>>

\* onTimer, line 96: the ramp reads the stored command and the flag.
TimerCalc ==
  /\ pc.timer.at = "calc"
  /\ pc' = [pc EXCEPT !.timer =
              [at |-> "publish",
               control_cmd |-> calcTargetAcceleration(prev_control_cmd_)]]
  /\ ev' = "onTimer:calc"
  /\ UNCHANGED <<status_, is_prev_control_cmd_subscribed_, prev_control_cmd_,
                 lateral_cmd_at_start_of_emergency_stop_, response, published,
                 request, accepted, RaceFrame>>

\* onTimer, line 97: the ramp's command is published.
TimerPublish ==
  /\ pc.timer.at = "publish"
  /\ published' = <<publishControlCommand(pc.timer.control_cmd)>>
  /\ pc' = [pc EXCEPT !.timer.at = "store"]
  /\ ev' = "onTimer:publish"
  /\ UNCHANGED <<status_, is_prev_control_cmd_subscribed_, prev_control_cmd_,
                 lateral_cmd_at_start_of_emergency_stop_, response, request,
                 accepted, RaceFrame>>

\* onTimer, line 98: the ramp's command is stored.
TimerStore ==
  /\ pc.timer.at = "store"
  /\ prev_control_cmd_' = pc.timer.control_cmd
  /\ pc' = [pc EXCEPT !.timer = [at |-> "status",
                                 control_cmd |-> AckermannControlCommand]]
  /\ ev' = "onTimer:store"
  /\ UNCHANGED <<status_, is_prev_control_cmd_subscribed_,
                 lateral_cmd_at_start_of_emergency_stop_, response, published,
                 request, accepted, RaceFrame>>

\* onTimer, line 100: the stored command is published as it is.
TimerRepublish ==
  /\ pc.timer.at = "republish"
  /\ published' = <<publishControlCommand(prev_control_cmd_)>>
  /\ pc' = [pc EXCEPT !.timer.at = "status"]
  /\ ev' = "onTimer:republish"
  /\ UNCHANGED <<status_, is_prev_control_cmd_subscribed_, prev_control_cmd_,
                 lateral_cmd_at_start_of_emergency_stop_, response, request,
                 accepted, RaceFrame>>

\* onTimer, line 102: the status is published.
TimerStatus ==
  /\ pc.timer.at = "status"
  /\ published' = Append(published, publishStatus)
  /\ pc' = [pc EXCEPT !.timer = Idle.timer]
  /\ ev' = "onTimer:status"
  /\ UNCHANGED <<status_, is_prev_control_cmd_subscribed_, prev_control_cmd_,
                 lateral_cmd_at_start_of_emergency_stop_, response, request,
                 accepted, RaceFrame>>

RaceNext ==
  \/ RaceAdvance
  \/ \E msg \in RaceCommands(now) : CmdCheck(msg)
  \/ CmdStore
  \/ CmdMark
  \/ \E operate \in BOOLEAN : ReqRead(operate)
  \/ ReqSnapshot
  \/ ReqState
  \/ TimerRead
  \/ TimerCalc
  \/ TimerPublish
  \/ TimerStore
  \/ TimerRepublish
  \/ TimerStatus

RaceSpec == Init /\ [][RaceNext]_vars

====
